---------------------------- MODULE Spec2Model ----------------------------
(***************************************************************************)
(* A model of npm2pihole: the DNS alias reconciler (PiHoleManager), the    *)
(* reverse-proxy reconciler (NPMAPIManager), the proxy reload (NPMManager),*)
(* the manifest loader, and the periodic loop that runs them.              *)
(*                                                                         *)
(* Text is modelled as a sequence of one-character strings, so that the    *)
(* alias-list codec (strip, split, quote, join, sort) is computed the way  *)
(* the Python code computes it.                                            *)
(***************************************************************************)
EXTENDS Naturals, Integers, Sequences, FiniteSets, TLC

VARIABLES
    \* ---- DNS reconciler (src/pihole_manager.py) ----
    testing_mode,       \* PiHoleManager.testing_mode
    target_host,        \* PiHoleManager.target_host
    cnameList,          \* the resolver's dns.cnameRecords: a list of records
    pc,                 \* position inside update_cname_records
    domains,            \* the argument of update_cname_records
    existing_records,   \* local of update_cname_records
    new_records,        \* local of update_cname_records
    added_count,        \* local of update_cname_records
    formatted_records,  \* local of update_cname_records (the write payload)
    cmds,               \* the remote commands of this cycle, in order
    cycle,              \* number of cycles started
    before,             \* the resolver's records when the cycle started
    prev,               \* what the previous cycle did
    \* ---- proxy reconciler (src/npm_api_manager.py) ----
    hosts,              \* the proxy manager's proxy hosts, in the order of GET
    nextId,             \* the id the proxy manager gives the next host
    token,              \* NPMAPIManager.token ("none" for None)
    spc,                \* position inside sync_proxy_hosts_from_services
    services,           \* local: the loaded service list
    existing_hosts,     \* local: the result of get_existing_proxy_hosts
    expected_domains,   \* local: set of hostname.suffix
    existing_domains,   \* local: dict domain -> host id, as a list of pairs
    pendingDeletes,     \* the items of the delete loop still to visit
    pendingCreates,     \* the services of the create loop still to visit
    calls,              \* the delete/create/fetch calls of this run, in order
    lastCall,           \* the events of the latest _make_api_request
    syncs,              \* number of runs started
    returned,           \* whether the run has returned, and the value it returned
    \* ---- the periodic loop (src/main.py) and the proxy reload ----
    variant,            \* which deployment runs: "main", "api", "file" ("none": a manager alone)
    stage,              \* position of the loop
    cycleDomains,       \* the desired domains handed to the DNS reconciler
    reloads,            \* the reload_nginx_config calls of this cycle, in order
    interrupted,        \* a KeyboardInterrupt was delivered to the process
    errors,             \* number of exceptions raised inside run_check
    \* ---- the manifest loader (load_services_from_json) ----
    manifest,           \* the "services" list of the JSON file
    loaded,             \* whether the load has returned, and the value it returned
    \* ---- two reconcilers on one resolver ----
    rec,                \* per reconciler: position and locals of update_cname_records
    rlog,               \* the remote commands of both, in the order they ran
    \* ---- the parse of the resolver's answer, on its own ----
    printed,            \* what the read command printed
    parsed,             \* whether get_existing_cname_records has returned, and its value
    \* ---- main.py's copy of the DNS reconciler, next to PiHoleManager's ----
    twin,               \* NPM2PiHole's resolver, position, locals and commands
    script              \* the outcomes of the remote commands, in order

dnsVars == <<testing_mode, target_host, cnameList, pc, domains,
             existing_records, new_records, added_count, formatted_records,
             cmds, cycle, before, prev>>

proxyVars == <<hosts, nextId, token, spc, services, existing_hosts, expected_domains,
               existing_domains, pendingDeletes, pendingCreates, calls, lastCall,
               syncs, returned>>

ctlVars == <<variant, stage, cycleDomains, reloads, interrupted, errors>>

jsonVars == <<manifest, loaded>>

raceVars == <<rec, rlog>>

parseVars == <<printed, parsed>>

twinVars == <<twin, script>>

restVars == <<ctlVars, jsonVars, raceVars, parseVars, twinVars>>

vars == <<dnsVars, proxyVars, ctlVars, jsonVars, raceVars, parseVars, twinVars>>

-----------------------------------------------------------------------------
(* Bounds *)

MaxCycles == 2
NumDomains == 2
MaxInitRecords == 2
MaxSyncs == 1
MaxServices == 2
MaxHosts == 2
MaxErrors == 1
MaxEntries == 2

-----------------------------------------------------------------------------
(* Text *)

Min(a, b) == IF a < b THEN a ELSE b

\* Python's ord() for the characters that occur.
Ord(c) ==
    CASE c = "\n" -> 10
      [] c = " "  -> 32
      [] c = "\"" -> 34
      [] c = "'"  -> 39
      [] c = ","  -> 44
      [] c = "."  -> 46
      [] c = "T"  -> 84
      [] c = "U"  -> 85
      [] c = "["  -> 91
      [] c = "]"  -> 93
      [] c = "o"  -> 111
      [] c = "p"  -> 112
      [] c = "s"  -> 115
      [] c = "w"  -> 119
      [] c = "x"  -> 120
      [] c = "y"  -> 121
      [] c = "z"  -> 122

\* str.__lt__: lexicographic order by code point.
RECURSIVE StrLess(_, _)
StrLess(a, b) ==
    IF b = <<>> THEN FALSE
    ELSE IF a = <<>> THEN TRUE
    ELSE IF Ord(Head(a)) < Ord(Head(b)) THEN TRUE
    ELSE IF Ord(Head(a)) > Ord(Head(b)) THEN FALSE
    ELSE StrLess(Tail(a), Tail(b))

IsSpace(c) == c \in {" ", "\n"}

RECURSIVE LStrip(_)
LStrip(s) == IF s # <<>> /\ IsSpace(Head(s)) THEN LStrip(Tail(s)) ELSE s

RECURSIVE RStrip(_)
RStrip(s) ==
    IF s # <<>> /\ IsSpace(s[Len(s)]) THEN RStrip(SubSeq(s, 1, Len(s) - 1)) ELSE s

\* str.lstrip() in the place of str.strip()
StripLeftOnly(s) == LStrip(s)

\* str.strip()
Strip(s) == RStrip(LStrip(s))

\* str.startswith / str.endswith for a one-character argument
StartsWith(s, c) == s # <<>> /\ s[1] = c
EndsWith(s, c) == s # <<>> /\ s[Len(s)] = c

\* c in s
Contains(s, c) == \E i \in 1..Len(s) : s[i] = c

\* s.split(', '): leftmost non-overlapping occurrences of comma-space
RECURSIVE SplitCommaSpace(_)
SplitCommaSpace(s) ==
    LET hits == {i \in 1..(Len(s) - 1) : s[i] = "," /\ s[i + 1] = " "}
    IN  IF hits = {} THEN <<s>>
        ELSE LET i == CHOOSE j \in hits : \A k \in hits : j <= k
             IN  <<SubSeq(s, 1, i - 1)>> \o SplitCommaSpace(SubSeq(s, i + 2, Len(s)))

\* sep.join(parts)
RECURSIVE Join(_, _)
Join(sep, parts) ==
    IF parts = <<>> THEN <<>>
    ELSE IF Len(parts) = 1 THEN parts[1]
    ELSE parts[1] \o sep \o Join(sep, Tail(parts))

\* A sort that puts the largest string first.
RECURSIVE SortedDesc(_)
SortedDesc(S) ==
    IF S = {} THEN <<>>
    ELSE LET m == CHOOSE x \in S : \A y \in S \ {x} : StrLess(y, x)
         IN  <<m>> \o SortedDesc(S \ {m})

\* sorted(S) for a set of strings
RECURSIVE Sorted(_)
Sorted(S) ==
    IF S = {} THEN <<>>
    ELSE LET m == CHOOSE x \in S : \A y \in S \ {x} : StrLess(x, y)
         IN  <<m>> \o Sorted(S \ {m})

Range(f) == {f[i] : i \in DOMAIN f}


-----------------------------------------------------------------------------
(* Names *)

HostnamePool == << <<"x">>, <<"y">>, <<"z">>, <<"w">> >>

\* NPMAPIManager.domain_suffix
domain_suffix == <<"s">>

\* f"{service['hostname']}.{self.domain_suffix}"
FullDomain(hostname) == hostname \o <<".">> \o domain_suffix

\* The hostnames of the services that may be configured.
Hostnames == {HostnamePool[i] : i \in 1..Min(NumDomains, Len(HostnamePool))}

\* The domains a cycle may be asked to publish.
Domains == {FullDomain(h) : h \in Hostnames}

\* A domain that is on the resolver and is never desired.
StaleDomain == <<"o", ".", "s">>

\* The targets of the records the resolver may hold at startup.
Targets == {<<"T">>, <<"U">>}

\* The configured NPM_TARGET_HOST.
ConfiguredTargets == {<<"T">>}

\* f"{domain},{self.target_host}"
Record(domain, target) == domain \o <<",">> \o target

\* The part of a record before its first comma: the alias source.
RECURSIVE SourceOf(_)
SourceOf(r) == IF r = <<>> \/ Head(r) = "," THEN <<>> ELSE <<Head(r)>> \o SourceOf(Tail(r))

-----------------------------------------------------------------------------
(* The resolver, as the code's comments describe its two formats *)

\* Output of "pihole-FTL --config dns.cnameRecords": [ d1,t1, d2,t2 ] or [].
ResolverShow(list) ==
    IF list = <<>> THEN <<"[", "]", "\n">>
    ELSE <<"[", " ">> \o Join(<<",", " ">>, list) \o <<" ", "]", "\n">>

\* The list the resolver stores for the argument [ "item1", "item2" ]: the
\* texts between successive pairs of double quotes.
RECURSIVE ResolverParse(_)
ResolverParse(arg) ==
    LET q == {i \in 1..Len(arg) : arg[i] = "\""}
    IN  IF Cardinality(q) < 2 THEN <<>>
        ELSE LET a == CHOOSE i \in q : \A k \in q : i <= k
                 b == CHOOSE i \in q \ {a} : \A k \in q \ {a} : i <= k
             IN  <<SubSeq(arg, a + 1, b - 1)>> \o ResolverParse(SubSeq(arg, b + 1, Len(arg)))

\* The alias lists the resolver may hold at startup: at most MaxInitRecords
\* records, each domain at most once as the source, not in ascending order.
InitRecordPool == {Record(d, t) : d \in Domains \cup {StaleDomain}, t \in Targets}

InitSets ==
    {S \in SUBSET InitRecordPool :
        /\ Cardinality(S) <= MaxInitRecords
        /\ \A r1 \in S, r2 \in S : SourceOf(r1) = SourceOf(r2) => r1 = r2}

InitLists == {SortedDesc(S) : S \in InitSets}

-----------------------------------------------------------------------------
(* src/pihole_manager.py *)

Outcomes == {"ok", "nonzero", "timeout", "exception"}

\* PiHoleManager.run_ssh_command: the stripped stdout on exit status 0, and
\* the empty string on a non-zero status, a timeout or an exception.
run_ssh_command(outcome, stdout) == IF outcome = "ok" THEN Strip(stdout) ELSE <<>>

\* The parse without "part = part.strip()".
get_existing_cname_records_nostrip(response) ==
    IF response = <<>> \/ response = <<"[", "]">> THEN {}
    ELSE LET r1 == Strip(response)
             r2 == IF StartsWith(r1, "[") /\ EndsWith(r1, "]")
                   THEN SubSeq(r1, 2, Len(r1) - 1) ELSE r1
         IN  IF Strip(r2) = <<>> THEN {}
             ELSE LET parts == SplitCommaSpace(r2)
                  IN  {part \in Range(parts) : part # <<>> /\ Contains(part, ",")}

\* The parse that removes a leading bracket and a trailing bracket each on
\* its own.
get_existing_cname_records_each_bracket(response) ==
    IF response = <<>> \/ response = <<"[", "]">> THEN {}
    ELSE LET r1 == Strip(response)
             r1a == IF StartsWith(r1, "[") THEN Tail(r1) ELSE r1
             r2 == IF EndsWith(r1a, "]") THEN SubSeq(r1a, 1, Len(r1a) - 1) ELSE r1a
         IN  IF Strip(r2) = <<>> THEN {}
             ELSE LET parts == SplitCommaSpace(r2)
                      stripped == {Strip(parts[i]) : i \in 1..Len(parts)}
                  IN  {part \in stripped : part # <<>> /\ Contains(part, ",")}

\* PiHoleManager.get_existing_cname_records, from the response of the read
get_existing_cname_records(response) ==
    IF response = <<>> \/ response = <<"[", "]">> THEN {}
    ELSE LET r1 == Strip(response)
             r2 == IF StartsWith(r1, "[") /\ EndsWith(r1, "]")
                   THEN SubSeq(r1, 2, Len(r1) - 1) ELSE r1
         IN  IF Strip(r2) = <<>> THEN {}
             ELSE LET parts == SplitCommaSpace(r2)
                      stripped == {Strip(parts[i]) : i \in 1..Len(parts)}
                  IN  {part \in stripped : part # <<>> /\ Contains(part, ",")}

\* The loop that counts every desired domain, present or not.
RECURSIVE AddLoopCountAll(_, _, _, _, _)
AddLoopCountAll(ds, target, existing, new, count) ==
    IF ds = {} THEN [new_records |-> new, added_count |-> count]
    ELSE LET domain == CHOOSE d \in ds : TRUE
             record == Record(domain, target)
         IN  AddLoopCountAll(ds \ {domain}, target, existing, new \cup {record}, count + 1)

\* update_cname_records, "for domain in domains": the loop over the desired
\* domains, from new_records = set(existing_records) and added_count = 0.
RECURSIVE AddLoop(_, _, _, _, _)
AddLoop(ds, target, existing, new, count) ==
    IF ds = {} THEN [new_records |-> new, added_count |-> count]
    ELSE LET domain == CHOOSE d \in ds : TRUE
             record == Record(domain, target)
         IN  IF record \in existing
             THEN AddLoop(ds \ {domain}, target, existing, new, count)
             ELSE AddLoop(ds \ {domain}, target, existing, new \cup {record}, count + 1)

\* The payload with the records in descending order.
FormatRecordsDesc(records) ==
    LET sorted == SortedDesc(records)
        quoted_records == [i \in 1..Len(sorted) |-> <<"\"">> \o sorted[i] \o <<"\"">>]
    IN  <<"[", " ">> \o Join(<<",", " ">>, quoted_records) \o <<" ", "]">>

\* update_cname_records, formatted_records: [ "item1", "item2", "item3" ]
FormatRecords(records) ==
    LET sorted == Sorted(records)
        quoted_records == [i \in 1..Len(sorted) |-> <<"\"">> \o sorted[i] \o <<"\"">>]
    IN  <<"[", " ">> \o Join(<<",", " ">>, quoted_records) \o <<" ", "]">>

\* "if added_count >= 0"
HasChangesAlways(count) == count >= 0

\* update_cname_records, "if added_count > 0"
HasChanges(count) == count > 0

\* Whether the log holds a write that ended with exit status 0.
Wrote(log) == \E i \in DOMAIN log : log[i].cmd = "write" /\ log[i].outcome = "ok"

\* The proxy reconciler at rest, with nothing on the proxy manager.
ProxyIdle ==
    /\ hosts = <<>>
    /\ nextId = 1
    /\ token = "none"
    /\ spc = "idle"
    /\ services = <<>>
    /\ existing_hosts = <<>>
    /\ expected_domains = {}
    /\ existing_domains = <<>>
    /\ pendingDeletes = <<>>
    /\ pendingCreates = <<>>
    /\ calls = <<>>
    /\ lastCall = [op |-> "none", result |-> "none", trace |-> <<>>]
    /\ syncs = 0
    /\ returned = [done |-> FALSE, value |-> {}]

NoCycle == [domains |-> {}, wrote |-> FALSE, new_records |-> {}]

\* No loop runs: a manager is used on its own.
CtlIdle ==
    /\ variant = "none"
    /\ stage = "top"
    /\ cycleDomains = {}
    /\ reloads = <<>>
    /\ interrupted = FALSE
    /\ errors = 0

\* No manifest is being loaded.
JsonIdle ==
    /\ manifest = <<>>
    /\ loaded = [done |-> FALSE, value |-> <<>>]

Reconcilers == {1, 2}

\* The locals of a reconciler that is not inside update_cname_records.
NoRun == [pc |-> "idle", domains |-> {}, read_ok |-> FALSE, added |-> {},
          formatted_records |-> <<>>, wrote |-> FALSE]

\* No second reconciler runs.
RaceIdle ==
    /\ rec = [r \in Reconcilers |-> NoRun]
    /\ rlog = <<>>

\* Before the parse: no response, and nothing returned by either copy.
NotParsed == [done |-> FALSE, response |-> <<>>, value |-> {}, main |-> {}]

\* No answer is being parsed on its own.
ParseIdle ==
    /\ printed = <<>>
    /\ parsed = NotParsed

\* NPM2PiHole outside update_cname_records.
NoTwin == [cnameList |-> <<>>, pc |-> "idle", existing_records |-> {},
           new_records |-> {}, added_count |-> 0, formatted_records |-> <<>>,
           cmds |-> <<>>]

\* main.py's copy of the reconciler does not run.
TwinIdle ==
    /\ twin = NoTwin
    /\ script = <<>>

InitDns ==
    /\ testing_mode \in BOOLEAN
    /\ target_host \in ConfiguredTargets
    /\ cnameList \in InitLists
    /\ pc = "idle"
    /\ domains = {}
    /\ existing_records = {}
    /\ new_records = {}
    /\ added_count = 0
    /\ formatted_records = <<>>
    /\ cmds = <<>>
    /\ cycle = 0
    /\ before = {}
    /\ prev = NoCycle
    /\ ProxyIdle
    /\ CtlIdle
    /\ JsonIdle
    /\ RaceIdle
    /\ ParseIdle
    /\ TwinIdle

\* A call of update_cname_records(D): "if not domains: return".
StartCycle(D) ==
    /\ pc = "idle"
    /\ cycle < MaxCycles
    /\ cycle' = cycle + 1
    /\ domains' = D
    /\ before' = Range(cnameList)
    /\ cmds' = <<>>
    /\ existing_records' = {}
    /\ new_records' = {}
    /\ added_count' = 0
    /\ formatted_records' = <<>>
    /\ pc' = IF D = {} THEN "done" ELSE "read"
    /\ UNCHANGED <<testing_mode, target_host, cnameList, prev>>
    /\ UNCHANGED proxyVars

\* A reconciler whose dry-run flag does not stop the write.
AfterPayloadWrites(testing) == "write"

\* update_cname_records, "if self.testing_mode": the payload is only logged;
\* otherwise it is written.
AfterPayload(testing) == IF testing THEN "done" ELSE "write"

\* The read of the alias list and everything up to the write: the parse, the
\* loop over the desired domains, the payload, and the dry-run branch.
ReadStep(outcome) ==
    /\ pc = "read"
    /\ LET response == run_ssh_command(outcome, ResolverShow(cnameList))
           existing == get_existing_cname_records(response)
           loop == AddLoop(domains, target_host, existing, existing, 0)
       IN  /\ existing_records' = existing
           /\ new_records' = loop.new_records
           /\ added_count' = loop.added_count
           /\ cmds' = Append(cmds, [cmd |-> "read", arg |-> <<>>,
                                    outcome |-> outcome, result |-> response])
           /\ IF HasChanges(loop.added_count)
              THEN /\ formatted_records' = FormatRecords(loop.new_records)
                   /\ pc' = AfterPayload(testing_mode)
              ELSE /\ formatted_records' = <<>>
                   /\ pc' = "done"
    /\ UNCHANGED <<testing_mode, target_host, cnameList, domains, cycle, before, prev>>
    /\ UNCHANGED proxyVars

\* update_cname_records, 'if result != ""'
RestartAfter(result) == result # <<>>

\* The write of the alias list.  On exit status 0 the resolver has stored the
\* list and prints either the new value or nothing; a timed-out command may
\* or may not have been applied.
WriteStep(outcome, silent, applied) ==
    /\ pc = "write"
    /\ applied => outcome \in {"ok", "timeout"}
    /\ outcome = "ok" => applied
    /\ silent => outcome = "ok"
    /\ LET stored == IF applied THEN ResolverParse(formatted_records) ELSE cnameList
           stdout == IF silent THEN <<"\n">> ELSE ResolverShow(stored)
           result == run_ssh_command(outcome, stdout)
       IN  /\ cnameList' = stored
           /\ cmds' = Append(cmds, [cmd |-> "write", arg |-> formatted_records,
                                    outcome |-> outcome, result |-> result])
           /\ pc' = IF RestartAfter(result) THEN "restart" ELSE "done"
    /\ UNCHANGED <<testing_mode, target_host, domains, existing_records, new_records,
                   added_count, formatted_records, cycle, before, prev>>
    /\ UNCHANGED proxyVars

\* PiHoleManager.restart_pihole_ftl: systemctl prints nothing, so the result
\* is the empty string whatever the outcome; it is only logged.
RestartStep(outcome) ==
    /\ pc = "restart"
    /\ cmds' = Append(cmds, [cmd |-> "restart", arg |-> <<>>, outcome |-> outcome,
                             result |-> run_ssh_command(outcome, <<"\n">>)])
    /\ pc' = "done"
    /\ UNCHANGED <<testing_mode, target_host, cnameList, domains, existing_records,
                   new_records, added_count, formatted_records, cycle, before, prev>>
    /\ UNCHANGED proxyVars

\* update_cname_records returns and its locals are gone; the next cycle may
\* start.
EndCycle ==
    /\ pc = "done"
    /\ pc' = "idle"
    /\ prev' = [domains |-> domains, wrote |-> Wrote(cmds), new_records |-> new_records]
    /\ domains' = {}
    /\ existing_records' = {}
    /\ new_records' = {}
    /\ added_count' = 0
    /\ formatted_records' = <<>>
    /\ cmds' = <<>>
    /\ before' = {}
    /\ UNCHANGED <<testing_mode, target_host, cnameList, cycle>>
    /\ UNCHANGED proxyVars

NextDns ==
    \/ \E D \in SUBSET Domains : StartCycle(D) /\ UNCHANGED restVars
    \/ \E o \in Outcomes : ReadStep(o) /\ UNCHANGED restVars
    \/ \E o \in Outcomes, silent \in BOOLEAN, applied \in BOOLEAN :
          WriteStep(o, silent, applied) /\ UNCHANGED restVars
    \/ \E o \in Outcomes : RestartStep(o) /\ UNCHANGED restVars
    \/ EndCycle /\ UNCHANGED restVars

SpecDns == InitDns /\ [][NextDns]_vars

-----------------------------------------------------------------------------
(* Properties of the DNS reconciler *)

\* The desired records of the running cycle.
DesiredRecords == {Record(d, target_host) : d \in domains}

\* The cycle is past its read.
PastRead == pc \in {"write", "restart", "done"} /\ domains # {}

\* Indices of the commands of one kind in this cycle's log.
Issued(kind) == {i \in DOMAIN cmds : cmds[i].cmd = kind}

\* C1: every alias record that was on the resolver when the cycle started is
\* still on the resolver, at every point of the cycle and after it, whatever
\* the outcomes of the read, the write and the restart.
C1_StrictlyAdditive == before \subseteq Range(cnameList)

\* C2: the loop computes the addition set {d+","+T : d in D} \ E, the count
\* is the size of that set, and the list submitted for writing holds exactly
\* the records of E united with the addition set.
C2_AdditionSet ==
    PastRead =>
        LET E == existing_records
            A == DesiredRecords \ E
        IN  /\ added_count = Cardinality(A)
            /\ new_records = E \cup A
            /\ \A i \in Issued("write") : Range(ResolverParse(cmds[i].arg)) = E \cup A

C2_Witness ==
    /\ pc = "restart"
    /\ Issued("write") # {}
    /\ DesiredRecords \cap existing_records # {}
    /\ DesiredRecords \ existing_records # {}
    /\ existing_records \ DesiredRecords # {}

\* C3: a cycle that follows a cycle whose write succeeded, with the same
\* desired domains, and whose read returns the list that write produced,
\* computes zero additions and issues neither a write nor a restart.
C3_Idempotent ==
    (PastRead /\ prev.wrote /\ domains = prev.domains /\ cmds[1].outcome = "ok")
        => /\ pc = "done"
           /\ added_count = 0
           /\ Issued("write") = {}
           /\ Issued("restart") = {}

C3_Witness ==
    /\ ~testing_mode
    /\ pc = "done"
    /\ prev.wrote
    /\ domains = prev.domains
    /\ Len(cmds) = 1
    /\ cmds[1].outcome = "ok"
    /\ Cardinality(existing_records) >= 2

\* C7: outside dry-run mode, a write that ended with exit status 0 is followed
\* in the same cycle by a restart, a write that failed is followed by no
\* restart, and the write is issued at most once in the cycle.
C7_RestartAfterWrite ==
    (pc = "done" /\ ~testing_mode) =>
        /\ Cardinality(Issued("write")) <= 1
        /\ \A i \in Issued("write") :
              IF cmds[i].outcome = "ok"
              THEN \E j \in Issued("restart") : j > i
              ELSE Issued("restart") = {}

\* C8: when every desired record is already in the parsed existing set, the
\* cycle is over after its read: the read is its only remote command.
C8_NoWriteWithoutAdditions ==
    (PastRead /\ DesiredRecords \subseteq existing_records)
        => /\ pc = "done"
           /\ Len(cmds) = 1
           /\ cmds[1].cmd = "read"

C8_Witness ==
    /\ ~testing_mode
    /\ pc = "done"
    /\ Cardinality(domains) >= 2
    /\ DesiredRecords \subseteq existing_records
    /\ cmds[1].outcome = "ok"

\* The text [ "r1", "r2", ... ] of a list of records, built left to right.
RECURSIVE QuotedTail(_)
QuotedTail(list) ==
    IF list = <<>> THEN <<" ", "]">>
    ELSE <<",", " ", "\"">> \o Head(list) \o <<"\"">> \o QuotedTail(Tail(list))

QuotedList(list) ==
    IF list = <<>> THEN <<"[", " ", " ", "]">>
    ELSE <<"[", " ", "\"">> \o Head(list) \o <<"\"">> \o QuotedTail(Tail(list))

XS == <<"x", ".", "s">>
YS == <<"y", ".", "s">>

\* [ "x.s,T", "y.s,T" ]
ExamplePayload ==
    <<"[", " ", "\"", "x", ".", "s", ",", "T", "\"", ",", " ",
      "\"", "y", ".", "s", ",", "T", "\"", " ", "]">>

\* C9: every submitted payload is the records of the new set, each once, in
\* ascending lexicographic order, each in double quotes, joined by comma-space
\* inside "[ " and " ]"; for {x.s, y.s}, no existing record and target T it
\* is [ "x.s,T", "y.s,T" ].
C9_PayloadFormat ==
    \A i \in Issued("write") :
        LET arg == cmds[i].arg
            list == ResolverParse(arg)
        IN  /\ Range(list) = new_records
            /\ Len(list) = Cardinality(new_records)
            /\ \A a, b \in 1..Len(list) : a < b => StrLess(list[a], list[b])
            /\ arg = QuotedList(list)
            /\ (domains = {XS, YS} /\ existing_records = {} /\ target_host = <<"T">>)
                  => arg = ExamplePayload

C9_Witness ==
    /\ domains = {XS, YS}
    /\ existing_records = {}
    /\ Len(cmds) >= 2
    /\ cmds[1].outcome = "ok"
    /\ target_host = <<"T">>
    /\ \E i \in Issued("write") : cmds[i].arg = ExamplePayload

C9_WitnessMixed ==
    /\ Cardinality(new_records) >= 3
    /\ existing_records # {}
    /\ Issued("write") # {}

\* C10: after a cycle that serialised and wrote the set S, a read that
\* returns the resolver's unquoted bracket form of those records is parsed
\* back to exactly S.
C10_RoundTrip ==
    (PastRead /\ prev.wrote /\ cmds[1].outcome = "ok")
        => existing_records = prev.new_records

C10_Witness ==
    /\ PastRead
    /\ prev.wrote
    /\ cmds[1].outcome = "ok"
    /\ existing_records = prev.new_records
    /\ Cardinality(existing_records) >= 3

-----------------------------------------------------------------------------
(* src/npm_api_manager.py *)

\* A second domain that may be routed and is never desired.
StaleDomain2 == <<"p", ".", "s">>

ProxyDomainPool == Domains \cup {StaleDomain, StaleDomain2}

Backends == {"b1", "b2"}

\* The service lists load_services_from_json may return: hostname and
\* backend (forward host and port) of each, a hostname possibly repeated,
\* the services of one list on one backend.
ServiceLists ==
    {[i \in DOMAIN hl |-> [hostname |-> hl[i], backend |-> b]] :
        hl \in UNION {[1..n -> Hostnames] : n \in 0..MaxServices}, b \in Backends}

\* domain_names of one remote host: up to MaxNames distinct domains.
MaxNames == 2

NameLists ==
    {l \in UNION {[1..n -> ProxyDomainPool] : n \in 1..MaxNames} :
        \A i, j \in DOMAIN l : l[i] = l[j] => i = j}

\* The proxy hosts the proxy manager may hold at startup: ids 1..n, and no
\* domain routed by two hosts.
InitHostLists ==
    LET shapes == {hl \in UNION {[1..n -> NameLists] : n \in 0..MaxHosts} :
                      \A i, j \in DOMAIN hl : i # j => Range(hl[i]) \cap Range(hl[j]) = {}}
    IN  {[i \in DOMAIN hl |-> [id |-> i, domain_names |-> hl[i], backend |-> "b1"]] :
            hl \in shapes}

\* The domains that the proxy hosts of a list route.
Routed(hl) == UNION {Range(hl[i].domain_names) : i \in DOMAIN hl}

\* What the proxy manager may answer to a request: 200 (GET, DELETE) or 201
\* (POST), 401, another error status, or no answer ("exc": a timeout or
\* another exception of the HTTP library).
Statuses(op) == {IF op = "create" THEN "201" ELSE "200", "401", "500", "exc"}

\* The answers to one _make_api_request: a1, a2 tell whether the first and
\* the second authentication succeed, s1, s2 are the status of the request
\* and of its retry.  The parts that the call may never ask for are fixed.
Answers(op) ==
    {r \in [a1 : BOOLEAN, s1 : Statuses(op), a2 : BOOLEAN, s2 : Statuses(op)] :
        /\ r.s1 # "401" => ~r.a2
        /\ ~r.a2 => r.s2 = "exc"}

\* "response.status_code in [200, 201]"
IsSuccess(status) == status \in {"200", "201"}

AuthEvent(ok) == [ev |-> "auth", ok |-> ok, status |-> "-"]
SendEvent(status) == [ev |-> "send", ok |-> IsSuccess(status), status |-> status]

\* The request after whose failed re-authentication the old token stays
\* cached.
MakeApiRequestKeepsToken(tok, a1, s1, a2, s2) ==
    IF tok = "none" /\ ~a1
    THEN [result |-> "none", token |-> "none", trace |-> <<AuthEvent(FALSE)>>]
    ELSE LET t0 == IF tok = "none" THEN <<AuthEvent(TRUE)>> ELSE <<>>
             t1 == Append(t0, SendEvent(s1))
         IN  IF IsSuccess(s1) THEN [result |-> "ok", token |-> "tok", trace |-> t1]
             ELSE IF s1 = "401"
             THEN IF a2
                  THEN [result |-> IF IsSuccess(s2) THEN "ok" ELSE "none",
                        token |-> "tok",
                        trace |-> t1 \o <<AuthEvent(TRUE), SendEvent(s2)>>]
                  ELSE [result |-> "none", token |-> "tok",
                        trace |-> Append(t1, AuthEvent(FALSE))]
             ELSE [result |-> "none", token |-> "tok", trace |-> t1]

\* The request that is sent again after a 401 whether or not the new
\* authentication succeeded.
MakeApiRequestRetryUnchecked(tok, a1, s1, a2, s2) ==
    IF tok = "none" /\ ~a1
    THEN [result |-> "none", token |-> "none", trace |-> <<AuthEvent(FALSE)>>]
    ELSE LET t0 == IF tok = "none" THEN <<AuthEvent(TRUE)>> ELSE <<>>
             t1 == Append(t0, SendEvent(s1))
         IN  IF IsSuccess(s1) THEN [result |-> "ok", token |-> "tok", trace |-> t1]
             ELSE IF s1 = "401"
             THEN [result |-> IF IsSuccess(s2) THEN "ok" ELSE "none",
                   token |-> IF a2 THEN "tok" ELSE "none",
                   trace |-> t1 \o <<AuthEvent(a2), SendEvent(s2)>>]
             ELSE [result |-> "none", token |-> "tok", trace |-> t1]

\* NPMAPIManager._make_api_request with _get_auth_token, for the cached token
\* tok and what the proxy manager answers: a1 and a2 tell whether the first
\* and the second authentication succeed, s1 and s2 are the status of the
\* request and of its retry ("exc" for a timeout or another exception).
MakeApiRequest(tok, a1, s1, a2, s2) ==
    IF tok = "none" /\ ~a1
    THEN [result |-> "none", token |-> "none", trace |-> <<AuthEvent(FALSE)>>]
    ELSE LET t0 == IF tok = "none" THEN <<AuthEvent(TRUE)>> ELSE <<>>
             t1 == Append(t0, SendEvent(s1))
         IN  IF IsSuccess(s1) THEN [result |-> "ok", token |-> "tok", trace |-> t1]
             ELSE IF s1 = "401"
             THEN IF a2
                  THEN [result |-> IF IsSuccess(s2) THEN "ok" ELSE "none",
                        token |-> "tok",
                        trace |-> t1 \o <<AuthEvent(TRUE), SendEvent(s2)>>]
                  ELSE [result |-> "none", token |-> "none",
                        trace |-> Append(t1, AuthEvent(FALSE))]
             ELSE [result |-> "none", token |-> "tok", trace |-> t1]

\* dict[k] = v on a dict kept as the list of its items in insertion order
DictPut(dict, k, v) ==
    IF \E i \in DOMAIN dict : dict[i][1] = k
    THEN [i \in DOMAIN dict |-> IF dict[i][1] = k THEN <<k, v>> ELSE dict[i]]
    ELSE Append(dict, <<k, v>>)

DictKeys(dict) == {dict[i][1] : i \in DOMAIN dict}

\* "for domain in host.get('domain_names', [])"
RECURSIVE PutNames(_, _, _)
PutNames(dict, names, id) ==
    IF names = <<>> THEN dict
    ELSE PutNames(DictPut(dict, Head(names), id), Tail(names), id)

\* "for host in existing_hosts": existing_domains[domain] = host['id']
RECURSIVE BuildExisting(_, _)
BuildExisting(dict, hl) ==
    IF hl = <<>> THEN dict
    ELSE BuildExisting(PutNames(dict, Head(hl).domain_names, Head(hl).id), Tail(hl))

\* The delete loop that visits each stale host id once.
RECURSIVE StaleItemsOncePerHost(_, _)
StaleItemsOncePerHost(dict, expected) ==
    IF dict = <<>> THEN <<>>
    ELSE LET rest == StaleItemsOncePerHost(Tail(dict), expected)
         IN  IF Head(dict)[1] \notin expected
                /\ ~\E i \in DOMAIN rest : rest[i][2] = Head(dict)[2]
             THEN <<Head(dict)>> \o rest
             ELSE rest

\* "for domain, host_id in existing_domains.items(): if domain not in
\* expected_domains": the items the delete loop deletes, in order.
RECURSIVE StaleItems(_, _)
StaleItems(dict, expected) ==
    IF dict = <<>> THEN <<>>
    ELSE IF Head(dict)[1] \notin expected
         THEN <<Head(dict)>> \o StaleItems(Tail(dict), expected)
         ELSE StaleItems(Tail(dict), expected)

\* "for service in services: if domain not in existing_domains": the
\* services the create loop creates, in order.
RECURSIVE MissingServices(_, _)
MissingServices(svcs, keys) ==
    IF svcs = <<>> THEN <<>>
    ELSE IF FullDomain(Head(svcs).hostname) \notin keys
         THEN <<Head(svcs)>> \o MissingServices(Tail(svcs), keys)
         ELSE MissingServices(Tail(svcs), keys)

\* The DNS reconciler at rest, with nothing on the resolver.
DnsIdle ==
    /\ target_host = <<"T">>
    /\ cnameList = <<>>
    /\ pc = "idle"
    /\ domains = {}
    /\ existing_records = {}
    /\ new_records = {}
    /\ added_count = 0
    /\ formatted_records = <<>>
    /\ cmds = <<>>
    /\ cycle = 0
    /\ before = {}
    /\ prev = NoCycle

InitProxy ==
    /\ testing_mode \in BOOLEAN
    /\ DnsIdle
    /\ hosts \in InitHostLists
    /\ nextId = Len(hosts) + 1
    /\ token = "none"
    /\ spc = "idle"
    /\ services = <<>>
    /\ existing_hosts = <<>>
    /\ expected_domains = {}
    /\ existing_domains = <<>>
    /\ pendingDeletes = <<>>
    /\ pendingCreates = <<>>
    /\ calls = <<>>
    /\ lastCall = [op |-> "none", result |-> "none", trace |-> <<>>]
    /\ syncs = 0
    /\ returned = [done |-> FALSE, value |-> {}]
    /\ CtlIdle
    /\ JsonIdle
    /\ RaceIdle
    /\ ParseIdle
    /\ TwinIdle

\* A run whose loops end once an earlier delete or create of the run has
\* failed.
AfterLoopsStopOnFailure(dels, cres, expected) ==
    LET failed == \E i \in DOMAIN calls : calls[i].op # "fetch" /\ ~calls[i].ok
        over == failed \/ (dels = <<>> /\ cres = <<>>)
    IN  /\ spc' = IF over THEN "done" ELSE IF dels # <<>> THEN "delete" ELSE "create"
        /\ returned' = IF over
                       THEN [done |-> TRUE, value |-> expected]
                       ELSE [done |-> FALSE, value |-> {}]

\* A run that returns only what it believes was applied: the empty set once
\* a call of the run has failed.
AfterLoopsOnlyApplied(dels, cres, expected) ==
    /\ spc' = IF dels # <<>> THEN "delete" ELSE IF cres # <<>> THEN "create" ELSE "done"
    /\ returned' = IF dels = <<>> /\ cres = <<>>
                   THEN [done |-> TRUE,
                         value |-> IF \A i \in DOMAIN calls : calls[i].ok
                                   THEN expected ELSE {}]
                   ELSE [done |-> FALSE, value |-> {}]

\* The position after the fetch or after a loop step, and the value returned
\* when both loops are over.
AfterLoops(dels, cres, expected) ==
    /\ spc' = IF dels # <<>> THEN "delete" ELSE IF cres # <<>> THEN "create" ELSE "done"
    /\ returned' = IF dels = <<>> /\ cres = <<>>
                   THEN [done |-> TRUE, value |-> expected]
                   ELSE [done |-> FALSE, value |-> {}]

\* A run that goes on to the fetch with nothing loaded.
NothingToSyncIgnored(svcs) == FALSE

\* sync_proxy_hosts_from_services, "if not services: return set()"
NothingToSync(svcs) == svcs = <<>>

\* Dry-run runs change nothing remote, so as many of them are explored as
\* there are cycles.
SyncLimit == IF testing_mode THEN MaxCycles ELSE MaxSyncs

\* sync_proxy_hosts_from_services starts: the services are loaded, and
\* "if not services: return set()".
StartSync(svcs) ==
    /\ spc = "idle"
    /\ syncs < SyncLimit
    /\ syncs' = syncs + 1
    /\ services' = svcs
    /\ calls' = <<>>
    /\ existing_hosts' = <<>>
    /\ expected_domains' = {}
    /\ existing_domains' = <<>>
    /\ pendingDeletes' = <<>>
    /\ pendingCreates' = <<>>
    /\ spc' = IF NothingToSync(svcs) THEN "done" ELSE "fetch"
    /\ returned' = [done |-> NothingToSync(svcs), value |-> {}]
    /\ UNCHANGED <<hosts, nextId, token, lastCall>>
    /\ UNCHANGED dnsVars

\* get_existing_proxy_hosts, then expected_domains and existing_domains.
FetchStep(a1, s1, a2, s2) ==
    /\ spc = "fetch"
    /\ LET r == MakeApiRequest(token, a1, s1, a2, s2)
           fetched == IF ~testing_mode /\ r.result = "ok" THEN hosts ELSE <<>>
           expected == {FullDomain(services[i].hostname) : i \in DOMAIN services}
           existing == BuildExisting(<<>>, fetched)
           dels == StaleItems(existing, expected)
           cres == MissingServices(services, DictKeys(existing))
       IN  /\ existing_hosts' = fetched
           /\ expected_domains' = expected
           /\ existing_domains' = existing
           /\ pendingDeletes' = dels
           /\ pendingCreates' = cres
           /\ AfterLoops(dels, cres, expected)
           /\ IF testing_mode
              THEN /\ calls' = Append(calls, [op |-> "fetch", id |-> 0, domain |-> <<>>,
                                              api |-> FALSE, ok |-> TRUE])
                   /\ UNCHANGED <<token, lastCall>>
              ELSE /\ calls' = Append(calls, [op |-> "fetch", id |-> 0, domain |-> <<>>,
                                              api |-> TRUE, ok |-> r.result = "ok"])
                   /\ token' = r.token
                   /\ lastCall' = [op |-> "fetch", result |-> r.result, trace |-> r.trace]
    /\ UNCHANGED <<hosts, nextId, services, syncs>>
    /\ UNCHANGED dnsVars

\* One step of the delete loop: delete_proxy_host(host_id).  The proxy
\* manager answers 200 only for a host it holds, and then removes it.
DeleteStep(a1, s1, a2, s2) ==
    /\ spc = "delete"
    /\ LET item == Head(pendingDeletes)
           r == MakeApiRequest(token, a1, s1, a2, s2)
       IN  /\ pendingDeletes' = Tail(pendingDeletes)
           /\ AfterLoops(Tail(pendingDeletes), pendingCreates, expected_domains)
           /\ IF testing_mode
              THEN /\ calls' = Append(calls, [op |-> "delete", id |-> item[2],
                                              domain |-> item[1], api |-> FALSE, ok |-> TRUE])
                   /\ UNCHANGED <<token, lastCall, hosts>>
              ELSE /\ r.result = "ok" => \E i \in DOMAIN hosts : hosts[i].id = item[2]
                   /\ calls' = Append(calls, [op |-> "delete", id |-> item[2],
                                              domain |-> item[1], api |-> TRUE,
                                              ok |-> r.result = "ok"])
                   /\ token' = r.token
                   /\ lastCall' = [op |-> "delete", result |-> r.result, trace |-> r.trace]
                   /\ hosts' = IF r.result = "ok"
                               THEN SelectSeq(hosts, LAMBDA h : h.id # item[2])
                               ELSE hosts
    /\ UNCHANGED <<nextId, services, existing_hosts, expected_domains, existing_domains,
                   pendingCreates, syncs>>
    /\ UNCHANGED dnsVars

\* One step of the create loop: create_proxy_host(domain, ip, port).  The
\* proxy manager answers 201 only for a domain no host routes yet, and then
\* holds a new host for that one domain.
CreateStep(a1, s1, a2, s2) ==
    /\ spc = "create"
    /\ LET service == Head(pendingCreates)
           domain == FullDomain(service.hostname)
           r == MakeApiRequest(token, a1, s1, a2, s2)
       IN  /\ pendingCreates' = Tail(pendingCreates)
           /\ AfterLoops(pendingDeletes, Tail(pendingCreates), expected_domains)
           /\ IF testing_mode
              THEN /\ calls' = Append(calls, [op |-> "create", id |-> 0, domain |-> domain,
                                              api |-> FALSE, ok |-> TRUE])
                   /\ UNCHANGED <<token, lastCall, hosts, nextId>>
              ELSE /\ r.result = "ok" => domain \notin Routed(hosts)
                   /\ calls' = Append(calls, [op |-> "create", id |-> 0, domain |-> domain,
                                              api |-> TRUE, ok |-> r.result = "ok"])
                   /\ token' = r.token
                   /\ lastCall' = [op |-> "create", result |-> r.result, trace |-> r.trace]
                   /\ IF r.result = "ok"
                      THEN /\ hosts' = Append(hosts, [id |-> nextId,
                                                      domain_names |-> <<domain>>,
                                                      backend |-> service.backend])
                           /\ nextId' = nextId + 1
                      ELSE UNCHANGED <<hosts, nextId>>
    /\ UNCHANGED <<services, existing_hosts, expected_domains, existing_domains,
                   pendingDeletes, syncs>>
    /\ UNCHANGED dnsVars

\* sync_proxy_hosts_from_services has returned and its locals are gone;
\* another run may start.
EndSync ==
    /\ spc = "done"
    /\ spc' = "idle"
    /\ services' = <<>>
    /\ existing_hosts' = <<>>
    /\ expected_domains' = {}
    /\ existing_domains' = <<>>
    /\ calls' = <<>>
    /\ lastCall' = [op |-> "none", result |-> "none", trace |-> <<>>]
    /\ UNCHANGED <<hosts, nextId, token, pendingDeletes, pendingCreates, syncs, returned>>
    /\ UNCHANGED dnsVars

NextProxy ==
    \/ \E svcs \in ServiceLists : StartSync(svcs) /\ UNCHANGED restVars
    \/ \E r \in Answers("fetch") : FetchStep(r.a1, r.s1, r.a2, r.s2) /\ UNCHANGED restVars
    \/ \E r \in Answers("delete") : DeleteStep(r.a1, r.s1, r.a2, r.s2) /\ UNCHANGED restVars
    \/ \E r \in Answers("create") : CreateStep(r.a1, r.s1, r.a2, r.s2) /\ UNCHANGED restVars
    \/ EndSync /\ UNCHANGED restVars

SpecProxy == InitProxy /\ [][NextProxy]_vars

-----------------------------------------------------------------------------
(* Properties of the proxy reconciler *)

\* The run is over and had services to reconcile.
SyncDone == spc = "done" /\ services # <<>>

\* Indices of the calls of one kind in this run's log.
Called(op) == {i \in DOMAIN calls : calls[i].op = op}

\* hostname.suffix over the desired services
ExpectedSet == {FullDomain(services[i].hostname) : i \in DOMAIN services}

\* C4: after a run in dry-run mode off in which the fetch and every delete
\* and create succeeded, the domains routed by the remote proxy hosts are
\* exactly the expected domains.
C4_Converges ==
    (SyncDone /\ ~testing_mode /\ \A i \in DOMAIN calls : calls[i].ok)
        => Routed(hosts) = ExpectedSet

OS == <<"o", ".", "s">>
PS == <<"p", ".", "s">>

\* C5: with existing the map of every domain name of every fetched host to
\* its host id, the run calls delete once for each key of existing outside
\* the expected set, with that key's host id, and no other delete; it calls
\* create once for each desired service whose domain is no key of existing,
\* in the order of the services, and no other create; outside dry-run mode
\* each of these calls is an API request.  With {o.s: 1, x.s: 2} and expected
\* {x.s} it deletes id 1 and creates nothing.
C5_DiffRequests ==
    SyncDone =>
        LET keys == Routed(existing_hosts)
            stale == keys \ ExpectedSet
            IdOf(k) == (CHOOSE i \in DOMAIN existing_hosts :
                            k \in Range(existing_hosts[i].domain_names)) 
            missing == {i \in DOMAIN services : FullDomain(services[i].hostname) \notin keys}
            creates == SelectSeq(calls, LAMBDA c : c.op = "create")
        IN  /\ Cardinality(Called("delete")) = Cardinality(stale)
            /\ \A k \in stale :
                  \E i \in Called("delete") :
                      /\ calls[i].domain = k
                      /\ calls[i].id = existing_hosts[IdOf(k)].id
            /\ \A h \in DOMAIN existing_hosts :
                  Cardinality({i \in Called("delete") : calls[i].id = existing_hosts[h].id})
                      = Cardinality(Range(existing_hosts[h].domain_names) \ ExpectedSet)
            /\ Len(creates) = Cardinality(missing)
            /\ \A n \in 1..Len(creates) :
                  \E i \in missing :
                      /\ Cardinality({j \in missing : j <= i}) = n
                      /\ creates[n].domain = FullDomain(services[i].hostname)
            /\ ~testing_mode => \A i \in DOMAIN calls : calls[i].api
            /\ (/\ Len(existing_hosts) = 2
                /\ existing_hosts[1].id = 1 /\ existing_hosts[1].domain_names = <<OS>>
                /\ existing_hosts[2].id = 2 /\ existing_hosts[2].domain_names = <<XS>>
                /\ ExpectedSet = {XS})
                  => /\ Called("create") = {}
                     /\ \A i \in Called("delete") : calls[i].id = 1
                     /\ Cardinality(Called("delete")) = 1

C5_Witness ==
    /\ SyncDone
    /\ ~testing_mode
    /\ Len(existing_hosts) = 2
    /\ existing_hosts[1].id = 1 /\ existing_hosts[1].domain_names = <<OS>>
    /\ existing_hosts[2].id = 2 /\ existing_hosts[2].domain_names = <<XS>>
    /\ ExpectedSet = {XS}
    /\ Len(calls) = 2
    /\ calls[2].op = "delete" /\ calls[2].id = 1

C5_WitnessTwoStaleNames ==
    /\ SyncDone
    /\ ~testing_mode
    /\ Len(existing_hosts) = 1
    /\ existing_hosts[1].domain_names = <<OS, PS>>
    /\ Cardinality({i \in Called("delete") : calls[i].id = existing_hosts[1].id}) = 2
    /\ Called("create") # {}

\* The requests and the authentications of the latest _make_api_request.
Sends == {i \in DOMAIN lastCall.trace : lastCall.trace[i].ev = "send"}
Auths == {i \in DOMAIN lastCall.trace : lastCall.trace[i].ev = "auth"}
Reauths == {i \in Auths : \E j \in Sends : j < i}

\* C6: in every call of _make_api_request the request is sent at most twice
\* and re-authentication happens at most once; a 401 on the first request is
\* followed by exactly one re-authentication, and by exactly one retry if
\* and only if that succeeded; no re-authentication follows another status;
\* a failed re-authentication, and a retry that is not answered 200 or 201,
\* make the call return no result.
C6_RetryOnce ==
    LET t == lastCall.trace
    IN  /\ Cardinality(Sends) <= 2
        /\ Cardinality(Reauths) <= 1
        /\ \A i \in Sends :
              IF \E j \in Sends : j < i
              THEN /\ i = Len(t)
                   /\ t[i - 1].ev = "auth" /\ t[i - 1].ok
                   /\ lastCall.result = (IF t[i].ok THEN "ok" ELSE "none")
              ELSE IF t[i].status = "401"
                   THEN /\ Cardinality(Reauths) = 1
                        /\ i + 1 \in Reauths
                        /\ IF t[i + 1].ok
                           THEN Cardinality(Sends) = 2 /\ i + 2 \in Sends
                           ELSE Cardinality(Sends) = 1 /\ lastCall.result = "none"
                   ELSE /\ Reauths = {}
                        /\ Cardinality(Sends) = 1
                        /\ lastCall.result = (IF t[i].ok THEN "ok" ELSE "none")

C6_Witness ==
    /\ Cardinality(Sends) = 2
    /\ \A i \in Sends : lastCall.trace[i].status = "401"
    /\ lastCall.result = "none"

C6_WitnessReauthFails ==
    /\ Cardinality(Sends) = 1
    /\ Cardinality(Reauths) = 1
    /\ lastCall.result = "none"

\* C11: a run of sync_proxy_hosts_from_services returns the full set of
\* expected domains (hostname.suffix of every loaded service; the empty set
\* when nothing was loaded), whatever the outcome of the fetch, of any delete
\* and of any create.
C11_ReturnsExpected ==
    spc = "done" => (returned.done /\ returned.value = ExpectedSet)

\* A run is over in which the fetch and a create failed, and the value
\* returned holds a domain that no remote proxy host routes.
C11_Witness ==
    /\ SyncDone
    /\ ~testing_mode
    /\ \E i \in Called("fetch") : ~calls[i].ok
    /\ \E i \in Called("create") : ~calls[i].ok
    /\ returned.value = ExpectedSet
    /\ \E d \in returned.value : d \notin Routed(hosts)

-----------------------------------------------------------------------------
(* The periodic loop.  variant "main" is NPM2PiHole.run of main.py, which  *)
(* reads the domains from the proxy's configuration files and reconciles   *)
(* the aliases.  Variants "api" and "file" run the managers in the order   *)
(* provider, proxy, DNS: "api" through NPMAPIManager, "file" through       *)
(* NPMManager and its reload.                                              *)

Variants == {"main", "api", "file"}

\* The stages in which the loop is inside the try block of run.
InTry == {"top", "indns", "sleep", "skipped"}

\* A reload whose exit status is not looked at.
reload_nginx_config_any_exit(testing, outcome) ==
    [raised |-> FALSE, value |-> testing \/ outcome \in {"ok", "nonzero"}]

\* NPMManager.reload_nginx_config: True in dry-run mode without running
\* anything; otherwise True on exit status 0, and False on another exit
\* status, on a timeout and on any other exception.
reload_nginx_config(testing, outcome) ==
    [raised |-> FALSE, value |-> testing \/ outcome = "ok"]

\* A loop without the catch-all clause.
ExceptClauseNoCatchAll(exc, at) ==
    IF at = "backoff" \/ exc = "Exception" THEN "crashed" ELSE "stopped"

\* The except clauses of run.  A KeyboardInterrupt raised inside the try
\* block ends the loop; any other exception is logged and followed by the
\* back-off sleep.  The back-off sleep is inside the second except clause,
\* so what is raised there leaves run.
ExceptClause(exc, at) ==
    IF at = "backoff" THEN "crashed"
    ELSE IF exc = "KeyboardInterrupt" THEN "stopped"
    ELSE "backoff"

\* What the resolver and the proxy manager hold when the loop starts: at
\* most one alias record, at most one proxy host with one domain name.
OrchLists == {l \in InitLists : Len(l) <= 1}

OrchHostLists ==
    {hl \in InitHostLists :
        Len(hl) <= 1 /\ \A i \in DOMAIN hl : Len(hl[i].domain_names) = 1}

InitOrch ==
    /\ testing_mode \in BOOLEAN
    /\ variant \in Variants
    /\ target_host \in ConfiguredTargets
    /\ cnameList \in OrchLists
    /\ pc = "idle"
    /\ domains = {}
    /\ existing_records = {}
    /\ new_records = {}
    /\ added_count = 0
    /\ formatted_records = <<>>
    /\ cmds = <<>>
    /\ cycle = 0
    /\ before = {}
    /\ prev = NoCycle
    /\ hosts \in IF variant = "api" THEN OrchHostLists ELSE {<<>>}
    /\ nextId = Len(hosts) + 1
    /\ token = "none"
    /\ spc = "idle"
    /\ services = <<>>
    /\ existing_hosts = <<>>
    /\ expected_domains = {}
    /\ existing_domains = <<>>
    /\ pendingDeletes = <<>>
    /\ pendingCreates = <<>>
    /\ calls = <<>>
    /\ lastCall = [op |-> "none", result |-> "none", trace |-> <<>>]
    /\ syncs = 0
    /\ returned = [done |-> FALSE, value |-> {}]
    /\ stage = "top"
    /\ cycleDomains = {}
    /\ reloads = <<>>
    /\ interrupted = FALSE
    /\ errors = 0
    /\ JsonIdle
    /\ RaceIdle
    /\ ParseIdle
    /\ TwinIdle

\* run_check of main.py: get_nginx_domains, then "if current_domains:"
\* update_cname_records, else a warning.
MainRunCheck(D) ==
    /\ variant = "main"
    /\ stage = "top"
    /\ cycleDomains' = D
    /\ reloads' = <<>>
    /\ IF D # {}
       THEN /\ StartCycle(D)
            /\ stage' = "indns"
       ELSE /\ stage' = "skipped"
            /\ UNCHANGED <<dnsVars, proxyVars>>
    /\ UNCHANGED <<variant, interrupted, errors, jsonVars, raceVars,
                   parseVars, twinVars>>

\* The steps of update_cname_records inside a cycle of the loop.
LoopRead(outcome) ==
    stage = "indns" /\ ReadStep(outcome) /\ UNCHANGED restVars

LoopWrite(outcome, silent, applied) ==
    stage = "indns" /\ WriteStep(outcome, silent, applied) /\ UNCHANGED restVars

LoopRestart(outcome) ==
    stage = "indns" /\ RestartStep(outcome) /\ UNCHANGED restVars

\* update_cname_records returns; the cycle is over and the loop sleeps.
LoopEndCycle ==
    /\ stage = "indns"
    /\ EndCycle
    /\ stage' = "sleep"
    /\ UNCHANGED <<variant, cycleDomains, reloads, interrupted, errors, jsonVars, raceVars,
                   parseVars, twinVars>>

\* time.sleep returns: the sleep after a cycle, or the back-off sleep.
LoopWake ==
    /\ stage \in {"sleep", "skipped", "backoff"}
    /\ stage' = "top"
    /\ UNCHANGED <<variant, cycleDomains, reloads, interrupted, errors, jsonVars, raceVars,
                   parseVars, twinVars>>
    /\ UNCHANGED <<dnsVars, proxyVars>>

\* An exception is raised inside run_check; the frame of
\* update_cname_records, if any, is gone with its locals.
MainError ==
    /\ variant = "main"
    /\ stage \in {"top", "indns"}
    /\ errors < MaxErrors
    /\ errors' = errors + 1
    /\ stage' = ExceptClause("Exception", stage)
    /\ pc' = "idle"
    /\ domains' = {}
    /\ existing_records' = {}
    /\ new_records' = {}
    /\ added_count' = 0
    /\ formatted_records' = <<>>
    /\ before' = {}
    /\ cmds' = <<>>
    /\ UNCHANGED <<testing_mode, target_host, cnameList, cycle, prev>>
    /\ UNCHANGED <<variant, cycleDomains, reloads, interrupted, jsonVars, raceVars,
                   parseVars, twinVars>>
    /\ UNCHANGED proxyVars

\* A KeyboardInterrupt is raised in the main thread, wherever it is.
\* run_ssh_command catches Exception only, so the interrupt leaves the
\* cycle at the command that was running.
MainInterrupt ==
    /\ variant = "main"
    /\ stage \in InTry \cup {"backoff"}
    /\ interrupted' = TRUE
    /\ stage' = ExceptClause("KeyboardInterrupt", stage)
    /\ UNCHANGED <<variant, cycleDomains, reloads, errors, jsonVars, raceVars,
                   parseVars, twinVars>>
    /\ UNCHANGED <<dnsVars, proxyVars>>

\* The "api" cycle: sync_proxy_hosts_from_services and its steps.
ApiSync(svcs) ==
    /\ variant = "api"
    /\ stage = "top"
    /\ StartSync(svcs)
    /\ stage' = "proxy"
    /\ cycleDomains' = {}
    /\ reloads' = <<>>
    /\ UNCHANGED <<variant, interrupted, errors, jsonVars, raceVars,
                   parseVars, twinVars>>

ApiFetch(a1, s1, a2, s2) ==
    stage = "proxy" /\ FetchStep(a1, s1, a2, s2) /\ UNCHANGED restVars

ApiDelete(a1, s1, a2, s2) ==
    stage = "proxy" /\ DeleteStep(a1, s1, a2, s2) /\ UNCHANGED restVars

ApiCreate(a1, s1, a2, s2) ==
    stage = "proxy" /\ CreateStep(a1, s1, a2, s2) /\ UNCHANGED restVars

\* The run has returned its domains: with none the cycle is over, otherwise
\* the DNS reconciler is next.
ApiSyncReturn ==
    /\ stage = "proxy"
    /\ EndSync
    /\ cycleDomains' = returned.value
    /\ stage' = IF returned.value = {} THEN "skipped" ELSE "dns"
    /\ UNCHANGED <<variant, reloads, interrupted, errors, jsonVars, raceVars,
                   parseVars, twinVars>>

\* The "file" cycle: generate_nginx_configs_from_services writes the
\* configuration files and returns the generated domains (the empty set
\* with no services or on an exception).
FileGenerate(D) ==
    /\ variant = "file"
    /\ stage = "top"
    /\ cycleDomains' = D
    /\ reloads' = <<>>
    /\ stage' = IF D = {} THEN "skipped" ELSE "reload"
    /\ UNCHANGED <<variant, interrupted, errors, jsonVars, raceVars,
                   parseVars, twinVars>>
    /\ UNCHANGED <<dnsVars, proxyVars>>

\* The reload of the proxy, and the gate on its result: on False the cycle
\* is over without DNS reconciliation.
FileReload(outcome) ==
    /\ stage = "reload"
    /\ LET r == reload_nginx_config(testing_mode, outcome)
       IN  /\ reloads' = Append(reloads, [exec |-> ~testing_mode,
                                          outcome |-> IF testing_mode THEN "none" ELSE outcome,
                                          raised |-> r.raised, value |-> r.value])
           /\ stage' = IF r.raised THEN "backoff" ELSE IF r.value THEN "dns" ELSE "sleep"
    /\ UNCHANGED <<variant, cycleDomains, interrupted, errors, jsonVars, raceVars,
                   parseVars, twinVars>>
    /\ UNCHANGED <<dnsVars, proxyVars>>

\* The DNS reconciler is called with the domains of the cycle.
LoopDns ==
    /\ stage = "dns"
    /\ StartCycle(cycleDomains)
    /\ stage' = "indns"
    /\ UNCHANGED <<variant, cycleDomains, reloads, interrupted, errors, jsonVars, raceVars,
                   parseVars, twinVars>>

NextOrch ==
    \/ \E D \in SUBSET Domains : MainRunCheck(D)
    \/ \E o \in Outcomes : LoopRead(o)
    \/ \E o \in Outcomes, silent \in BOOLEAN, applied \in BOOLEAN : LoopWrite(o, silent, applied)
    \/ \E o \in Outcomes : LoopRestart(o)
    \/ LoopEndCycle
    \/ LoopWake
    \/ MainError
    \/ MainInterrupt
    \/ \E svcs \in ServiceLists : ApiSync(svcs)
    \/ \E r \in Answers("fetch") : ApiFetch(r.a1, r.s1, r.a2, r.s2)
    \/ \E r \in Answers("delete") : ApiDelete(r.a1, r.s1, r.a2, r.s2)
    \/ \E r \in Answers("create") : ApiCreate(r.a1, r.s1, r.a2, r.s2)
    \/ ApiSyncReturn
    \/ \E D \in SUBSET Domains : FileGenerate(D)
    \/ \E o \in Outcomes : FileReload(o)
    \/ LoopDns

SpecOrch == InitOrch /\ [][NextOrch]_vars

-----------------------------------------------------------------------------
(* Properties of the loop *)

\* C12: when the desired state of a cycle is empty (no services loaded, no
\* domains found), the cycle issues no downstream remote operation: no
\* proxy-host fetch, delete or create, no reload, and no alias read, write or
\* restart.  The reload and the DNS reconciler are reached only with a
\* non-empty domain set.
C12_EmptyNoOps ==
    /\ (spc = "done" /\ services = <<>>) => calls = <<>>
    /\ stage \in {"reload", "dns", "indns"} => cycleDomains # {}
    /\ stage = "skipped" =>
          /\ cycleDomains = {}
          /\ calls = <<>> /\ cmds = <<>> /\ reloads = <<>>
          /\ pc = "idle" /\ spc = "idle"

\* A cycle with no services has ended while the proxy manager holds a host
\* and the resolver holds a record.
C12_Witness ==
    /\ variant = "api"
    /\ ~testing_mode
    /\ stage = "skipped"
    /\ syncs = 1
    /\ hosts # <<>>
    /\ cnameList # <<>>

\* What dry-run mode rules out in a state: a resolver command other than the
\* read, a request to the proxy manager, a token, an executed reload.
C13_NothingIssued ==
    /\ \A i \in DOMAIN cmds : cmds[i].cmd = "read"
    /\ \A i \in DOMAIN calls : ~calls[i].api
    /\ token = "none"
    /\ lastCall.trace = <<>>
    /\ \A i \in DOMAIN reloads : ~reloads[i].exec

\* C13: in dry-run mode no state-changing operation is ever issued, over any
\* number of cycles: no alias write, no resolver restart, no proxy-host
\* create or delete request, no authentication request and no executed
\* reload; the resolver's list and the proxy manager's hosts never change.
C13_DryRun ==
    /\ [](testing_mode => C13_NothingIssued)
    /\ [][testing_mode => (cnameList' = cnameList /\ hosts' = hosts)]_vars

\* In dry-run mode the second "api" cycle has made a create call, after a
\* first cycle whose DNS reconciler had records to add and wrote nothing.
C13_Witness ==
    /\ testing_mode
    /\ variant = "api"
    /\ syncs = MaxCycles
    /\ spc = "done"
    /\ \E i \in DOMAIN calls : calls[i].op = "create"
    /\ prev.domains # {}
    /\ ~prev.wrote
    /\ ~(prev.new_records \subseteq Range(cnameList))

\* C14: no exception raised inside run_check ends the loop: it is followed
\* by the back-off sleep, after which the loop is at its top again, where
\* the next step is the next call of run_check; run is left only when an
\* interrupt was delivered.
C14_ErrorsNeverEnd ==
    /\ [](stage \in {"stopped", "crashed"} => interrupted)
    /\ [][errors' > errors => stage' = "backoff"]_vars
    /\ [][(stage = "backoff" /\ ~interrupted') => stage' = "top"]_vars
    /\ [][(variant = "main" /\ stage = "top" /\ ~interrupted')
              => stage' \in {"indns", "skipped", "backoff"}]_vars

\* After an exception in an earlier cycle, a later cycle is at its write.
C14_Witness ==
    /\ variant = "main"
    /\ errors > 0
    /\ ~interrupted
    /\ stage = "indns"
    /\ pc = "write"

\* C15: an interrupt ends the loop only between cycles, and run returns
\* normally wherever the interrupt arrives: when the loop has ended, no
\* cycle is left unfinished, and no interrupt leaves run as an exception.
C15_InterruptBetweenCycles ==
    /\ stage # "crashed"
    /\ stage = "stopped" => pc = "idle"

\* C16: reload_nginx_config never raises and reports every failure (an exit
\* status other than 0, a timeout, any other exception) as False; in a cycle
\* whose reload reported False the DNS reconciler is not called.
C16_ReloadGate ==
    /\ \A i \in DOMAIN reloads :
          /\ ~reloads[i].raised
          /\ (reloads[i].exec /\ reloads[i].outcome # "ok") => ~reloads[i].value
    /\ (reloads # <<>> /\ ~reloads[Len(reloads)].value) =>
          /\ stage \notin {"dns", "indns"}
          /\ pc = "idle"
          /\ cmds = <<>>

\* After a cycle that reconciled the aliases, the reload of a later cycle
\* timed out and that cycle is over.
C16_Witness ==
    /\ variant = "file"
    /\ cycle > 0
    /\ cycleDomains # {}
    /\ reloads # <<>>
    /\ reloads[Len(reloads)].outcome = "timeout"
    /\ stage = "sleep"

-----------------------------------------------------------------------------
(* load_services_from_json (src/npm_api_manager.py).  A JSON value is a    *)
(* record [t, v]: its type and its text or items; t = "missing" stands for *)
(* a key the entry does not have.                                          *)

Digits == <<"0", "1", "2", "3", "4", "5", "6", "7", "8", "9">>

IsDigit(c) == \E i \in DOMAIN Digits : Digits[i] = c

DigitValue(c) == (CHOOSE i \in DOMAIN Digits : Digits[i] = c) - 1

\* The value of a non-empty run of decimal digits.
RECURSIVE DigitsToNat(_)
DigitsToNat(s) ==
    IF s = <<>> THEN 0
    ELSE DigitsToNat(SubSeq(s, 1, Len(s) - 1)) * 10 + DigitValue(s[Len(s)])

\* The part of a number's text before the decimal point.
RECURSIVE IntegerPart(_)
IntegerPart(s) ==
    IF s = <<>> \/ Head(s) = "." THEN <<>> ELSE <<Head(s)>> \o IntegerPart(Tail(s))

\* Python's int() on a JSON value: an integer is itself, a float is
\* truncated, a string is stripped and must then be decimal digits
\* (ValueError otherwise), null raises TypeError.
int(p) ==
    CASE p.t = "int" -> [raised |-> "none", value |-> DigitsToNat(p.v)]
      [] p.t = "float" -> [raised |-> "none", value |-> DigitsToNat(IntegerPart(p.v))]
      [] p.t = "str" ->
            LET body == Strip(p.v)
            IN  IF body # <<>> /\ \A i \in DOMAIN body : IsDigit(body[i])
                THEN [raised |-> "none", value |-> DigitsToNat(body)]
                ELSE [raised |-> "ValueError", value |-> 0]
      [] OTHER -> [raised |-> "TypeError", value |-> 0]

\* "key in service" for the three required keys.  On a number or null the
\* test itself raises TypeError; on a string it is a substring test, which
\* no string of the pool passes.
HasRequiredKeys(e) ==
    /\ e.kind = "object"
    /\ e.domain_names.t # "missing"
    /\ e.forward_host.t # "missing"
    /\ e.forward_port.t # "missing"

\* The services one entry expands to: one per domain name, in order.
Expand(e, port) ==
    [k \in DOMAIN e.domain_names.v |->
        [hostname |-> e.domain_names.v[k],
         server_ip |-> e.forward_host.v,
         port |-> port,
         description |-> IF e.description.t = "missing" THEN "" ELSE e.description.v]]

\* The loop over data['services'].  raised: an exception left the loop.
RECURSIVE LoadLoop(_, _)
LoadLoop(entries, out) ==
    IF entries = <<>> THEN [raised |-> FALSE, services |-> out]
    ELSE LET e == Head(entries)
         IN  IF e.kind \in {"number", "null"}
             THEN [raised |-> TRUE, services |-> out]
             ELSE IF ~HasRequiredKeys(e)
             THEN LoadLoop(Tail(entries), out)
             ELSE IF e.domain_names.t # "list" \/ e.domain_names.v = <<>>
             THEN LoadLoop(Tail(entries), out)
             ELSE IF int(e.forward_port).raised # "none"
             THEN LoadLoop(Tail(entries), out)
             ELSE LoadLoop(Tail(entries),
                           out \o Expand(e, int(e.forward_port).value))

\* load_services_from_json: [] when the file is missing, when it is not
\* JSON, and when any other exception is raised while loading.
load_services_from_json(m) ==
    IF m.file # "ok" THEN <<>>
    ELSE LET r == LoadLoop(m.services, <<>>)
         IN  IF r.raised THEN <<>> ELSE r.services

Absent == [t |-> "missing", v |-> <<>>]
NoText == [t |-> "missing", v |-> ""]

Object(names, host, port, description) ==
    [kind |-> "object", domain_names |-> names, forward_host |-> host,
     forward_port |-> port, description |-> description]

\* An entry that is no JSON object.
Scalar(kind) == [kind |-> kind, domain_names |-> Absent, forward_host |-> NoText,
                 forward_port |-> Absent, description |-> NoText]

NamesXY == [t |-> "list", v |-> <<<<"x">>, <<"y">>>>]
NamesZ == [t |-> "list", v |-> <<<<"z">>>>]
Host1 == [t |-> "str", v |-> "10.0.0.5"]
Host2 == [t |-> "str", v |-> "10.0.0.6"]
Port80 == [t |-> "str", v |-> <<"8", "0">>]
Port80Padded == [t |-> "str", v |-> <<" ", "8", "0", "\n">>]
Port443 == [t |-> "int", v |-> <<"4", "4", "3">>]
Port80Float == [t |-> "float", v |-> <<"8", "0", ".", "5">>]
PortText == [t |-> "str", v |-> <<"n", "o">>]
PortNull == [t |-> "null", v |-> <<>>]

\* The entries a manifest is made of.
EntryPool ==
    { Object(NamesXY, Host1, Port80, NoText),
      Object(NamesZ, Host2, Port443, [t |-> "str", v |-> "d"]),
      Object(NamesZ, Host1, Port80Padded, NoText),
      Object(NamesZ, Host1, Port80Float, NoText),
      Object(NamesZ, NoText, Port80, NoText),
      Object(Absent, Host1, Port80, NoText),
      Object(NamesZ, Host1, Absent, NoText),
      Object([t |-> "list", v |-> <<>>], Host1, Port80, NoText),
      Object([t |-> "str", v |-> <<<<"z">>>>], Host1, Port80, NoText),
      Object(NamesZ, Host1, PortText, NoText),
      Object(NamesZ, Host1, PortNull, NoText),
      Scalar("string"),
      Scalar("number"),
      Scalar("null") }

Manifests ==
    {[file |-> "missing", services |-> <<>>], [file |-> "invalid", services |-> <<>>]}
    \cup {[file |-> "ok", services |-> l] :
             l \in UNION {[1..n -> EntryPool] : n \in 0..MaxEntries}}

InitJson ==
    /\ testing_mode = FALSE
    /\ DnsIdle
    /\ ProxyIdle
    /\ CtlIdle
    /\ RaceIdle
    /\ ParseIdle
    /\ TwinIdle
    /\ manifest \in Manifests
    /\ loaded = [done |-> FALSE, value |-> <<>>]

\* One call of load_services_from_json on the file.
LoadJson ==
    /\ ~loaded.done
    /\ loaded' = [done |-> TRUE, value |-> load_services_from_json(manifest)]
    /\ UNCHANGED <<manifest, dnsVars, proxyVars, ctlVars, raceVars, parseVars, twinVars>>

NextJson == LoadJson

SpecJson == InitJson /\ [][NextJson]_vars

-----------------------------------------------------------------------------
(* Properties of the manifest loader *)

\* The ports of the pool that int() accepts, with the integer they stand for.
C17_PortNumber(p) ==
    CASE p \in {Port80, Port80Padded, Port80Float} -> 80
      [] p = Port443 -> 443
      [] OTHER -> -1

\* A valid entry: the three keys, a non-empty list of names, a port that
\* can be coerced.
C17_Valid(e) ==
    /\ e.kind = "object"
    /\ e.forward_host.t = "str"
    /\ e.domain_names.t = "list" /\ e.domain_names.v # <<>>
    /\ C17_PortNumber(e.forward_port) >= 0

\* What is to be loaded: the valid entries, each expanded to one
\* service per name, in list order; every other entry gives nothing.
RECURSIVE C17_Expected(_)
C17_Expected(entries) ==
    IF entries = <<>> THEN <<>>
    ELSE LET e == Head(entries)
             n == IF C17_Valid(e) THEN Len(e.domain_names.v) ELSE 0
         IN  [k \in 1..n |->
                 [hostname |-> e.domain_names.v[k],
                  server_ip |-> e.forward_host.v,
                  port |-> C17_PortNumber(e.forward_port),
                  description |-> IF e.description.t = "str" THEN e.description.v ELSE ""]]
             \o C17_Expected(Tail(entries))

\* C17: load_services_from_json turns each valid manifest entry into one
\* service per name in domain_names, with the entry's forward_host and its
\* forward_port as an integer, in list order; every other entry contributes
\* nothing, and the entries before and after it are still loaded.
C17_LoadsValidEntries ==
    (loaded.done /\ manifest.file = "ok") => loaded.value = C17_Expected(manifest.services)

\* The same, for a manifest whose entries are all JSON objects or strings.
C17_LoadsValidObjects ==
    (/\ loaded.done
     /\ manifest.file = "ok"
     /\ \A i \in DOMAIN manifest.services : manifest.services[i].kind \in {"object", "string"})
        => loaded.value = C17_Expected(manifest.services)

\* The example of the specification: names [x, y] with port "80" give two
\* services on port 80, and the entry after it, with a port that is no
\* number, gives none.
C17_Example ==
    /\ loaded.done
    /\ manifest.services = <<Object(NamesXY, Host1, Port80, NoText),
                             Object(NamesZ, Host1, PortText, NoText)>>
    /\ Len(loaded.value) = 2
    /\ loaded.value[1].hostname = <<"x">> /\ loaded.value[1].port = 80
    /\ loaded.value[2].hostname = <<"y">> /\ loaded.value[2].port = 80

-----------------------------------------------------------------------------
(* Further properties of the DNS reconciler *)

\* The sources of a list of records are pairwise distinct.
UniqueSources(list) ==
    \A i, j \in DOMAIN list : SourceOf(list[i]) = SourceOf(list[j]) => i = j

\* C18: in every alias list submitted for writing, each domain appears at
\* most once as the alias source, whenever the resolver's list had that
\* property when the cycle started.
C18_OneRecordPerDomain ==
    \A i \in DOMAIN cmds :
        (cmds[i].cmd = "write" /\ \A r1, r2 \in before : SourceOf(r1) = SourceOf(r2) => r1 = r2)
            => UniqueSources(ResolverParse(cmds[i].arg))

-----------------------------------------------------------------------------
(* Further properties of the proxy reconciler *)

\* The run is past its fetch.
PastFetch == services # <<>> /\ spc \in {"delete", "create", "done"}

\* Nothing was asked of the host with this id for this domain, and the proxy
\* manager holds the host as it was fetched.
Untouched(domain, id) ==
    /\ \A i \in Called("delete") : calls[i].id # id
    /\ \A i \in Called("create") : calls[i].domain # domain
    /\ \E j \in DOMAIN hosts, f \in DOMAIN existing_hosts :
          hosts[j].id = id /\ existing_hosts[f] = hosts[j]

\* C20: for a desired domain that is already a key of the existing map, the
\* run issues neither a delete nor a create for its host, whatever backend
\* the service names, and the host's remote record is unchanged.
C20_NoUpdatePath ==
    PastFetch =>
        \A k \in DOMAIN existing_domains :
            existing_domains[k][1] \in expected_domains
                => Untouched(existing_domains[k][1], existing_domains[k][2])

\* The same for the hosts that carry no stale domain name.
C20_NoUpdatePathNoStaleName ==
    PastFetch =>
        \A k \in DOMAIN existing_domains :
            (/\ existing_domains[k][1] \in expected_domains
             /\ \A n \in DOMAIN existing_domains :
                   existing_domains[n][2] = existing_domains[k][2]
                       => existing_domains[n][1] \in expected_domains)
                => Untouched(existing_domains[k][1], existing_domains[k][2])

-----------------------------------------------------------------------------
(* Two reconcilers, each running update_cname_records once against the    *)
(* same resolver, with different desired domains.  Their commands          *)
(* interleave freely; nothing in the code orders them.                     *)

InitRace ==
    /\ testing_mode = FALSE
    /\ target_host \in ConfiguredTargets
    /\ cnameList \in OrchLists
    /\ pc = "idle"
    /\ domains = {}
    /\ existing_records = {}
    /\ new_records = {}
    /\ added_count = 0
    /\ formatted_records = <<>>
    /\ cmds = <<>>
    /\ cycle = 0
    /\ before = {}
    /\ prev = NoCycle
    /\ ProxyIdle
    /\ CtlIdle
    /\ JsonIdle
    /\ rec \in {f \in [Reconcilers -> {[NoRun EXCEPT !.pc = "read", !.domains = D] :
                                          D \in SUBSET Domains \ {{}}}] :
                   f[1].domains # f[2].domains}
    /\ rlog = <<>>
    /\ ParseIdle
    /\ TwinIdle

\* The read of reconciler r, and everything up to its write.
RaceRead(r, outcome) ==
    /\ rec[r].pc = "read"
    /\ LET response == run_ssh_command(outcome, ResolverShow(cnameList))
           existing == get_existing_cname_records(response)
           loop == AddLoop(rec[r].domains, target_host, existing, existing, 0)
           changes == HasChanges(loop.added_count)
       IN  rec' = [rec EXCEPT ![r] =
                      [pc |-> IF changes THEN AfterPayload(testing_mode) ELSE "done",
                       domains |-> rec[r].domains,
                       read_ok |-> outcome = "ok",
                       added |-> loop.new_records \ existing,
                       formatted_records |-> IF changes THEN FormatRecords(loop.new_records)
                                             ELSE <<>>,
                       wrote |-> FALSE]]
    /\ rlog' = Append(rlog, [who |-> r, cmd |-> "read"])
    /\ UNCHANGED <<dnsVars, proxyVars, ctlVars, jsonVars, parseVars, twinVars>>

\* The write of reconciler r: the resolver stores the payload as its list.
RaceWrite(r, outcome, silent, applied) ==
    /\ rec[r].pc = "write"
    /\ applied => outcome \in {"ok", "timeout"}
    /\ outcome = "ok" => applied
    /\ silent => outcome = "ok"
    /\ LET stored == IF applied THEN ResolverParse(rec[r].formatted_records) ELSE cnameList
           stdout == IF silent THEN <<"\n">> ELSE ResolverShow(stored)
           result == run_ssh_command(outcome, stdout)
       IN  /\ cnameList' = stored
           /\ rec' = [rec EXCEPT ![r].pc = IF RestartAfter(result) THEN "restart" ELSE "done",
                                 ![r].wrote = outcome = "ok"]
    /\ rlog' = Append(rlog, [who |-> r, cmd |-> "write"])
    /\ UNCHANGED <<testing_mode, target_host, pc, domains, existing_records, new_records,
                   added_count, formatted_records, cmds, cycle, before, prev>>
    /\ UNCHANGED <<proxyVars, ctlVars, jsonVars, parseVars, twinVars>>

\* The restart of reconciler r.
RaceRestart(r, outcome) ==
    /\ rec[r].pc = "restart"
    /\ rec' = [rec EXCEPT ![r].pc = "done"]
    /\ rlog' = Append(rlog, [who |-> r, cmd |-> "restart"])
    /\ UNCHANGED <<dnsVars, proxyVars, ctlVars, jsonVars, parseVars, twinVars>>

NextRace ==
    \/ \E r \in Reconcilers, o \in Outcomes : RaceRead(r, o)
    \/ \E r \in Reconcilers, o \in Outcomes, silent \in BOOLEAN, applied \in BOOLEAN :
          RaceWrite(r, o, silent, applied)
    \/ \E r \in Reconcilers, o \in Outcomes : RaceRestart(r, o)

SpecRace == InitRace /\ [][NextRace]_vars

\* Both reconcilers are through, and the write of each ended with exit
\* status 0.
BothWrote == \A r \in Reconcilers : rec[r].pc = "done" /\ rec[r].wrote

\* One reconciler ran all its commands before the other ran its first: what
\* a single reconciler running twice does.
Sequential ==
    \E a, b \in Reconcilers :
        /\ a # b
        /\ \A i, j \in DOMAIN rlog : (rlog[i].who = a /\ rlog[j].who = b) => i < j

\* A record that a reconciler added is not on the resolver.
Lost == \E r \in Reconcilers : ~(rec[r].added \subseteq Range(cnameList))

\* C19: when the two runs do not overlap (a single sequential reconciler)
\* and both writes succeed, no record that one of them added is missing from
\* the final list.
C19_NoLossWhenSequential == (BothWrote /\ Sequential) => ~Lost

\* The same when, in addition, both reads succeeded.
C19_NoLossWhenSequentialAndRead ==
    (BothWrote /\ Sequential /\ \A r \in Reconcilers : rec[r].read_ok) => ~Lost

\* The lost update: the runs overlapped, both reads and both writes
\* succeeded, and a record one of them added is missing.
C19_LostUpdate ==
    /\ BothWrote
    /\ ~Sequential
    /\ \A r \in Reconcilers : rec[r].read_ok
    /\ Lost

-----------------------------------------------------------------------------
(* Failures inside the loops of the proxy reconciler *)

\* The delete and create calls of the run that failed.
FailedCalls(op) == {i \in Called(op) : ~calls[i].ok}

\* C21: a delete that fails (error status, a second 401, a timeout or any
\* other exception) stops neither the remaining deletes nor the creates, and
\* a create that fails does not stop the remaining creates: past the fetch,
\* every stale item and every missing service is either already called for
\* or still to be visited, the creates start only when no delete is left,
\* and the run is over only when nothing is left.
C21_FailuresDoNotStop ==
    PastFetch =>
        /\ Cardinality(Called("delete")) + Len(pendingDeletes)
              = Len(StaleItems(existing_domains, expected_domains))
        /\ Cardinality(Called("create")) + Len(pendingCreates)
              = Len(MissingServices(services, DictKeys(existing_domains)))
        /\ spc = "create" => pendingDeletes = <<>>
        /\ spc = "done" => pendingDeletes = <<>> /\ pendingCreates = <<>>

\* A run in which the first of two deletes failed and the second delete and
\* the creates were still called, and the first of two creates failed and
\* the second was still called.
C21_Witness ==
    /\ SyncDone
    /\ \E i \in FailedCalls("delete") :
          /\ \E j \in Called("delete") : j > i
          /\ \E k \in Called("create") : k > i
    /\ \E i \in FailedCalls("create") : \E j \in Called("create") : j > i

-----------------------------------------------------------------------------
(* src/main.py: the functions of NPM2PiHole's own copy of the DNS           *)
(* reconciler                                                               *)

\* NPM2PiHole.run_ssh_command: result.stdout.strip() on return code 0, and
\* "" on another return code, a timeout or an exception.
NPM2PiHole_run_ssh_command(outcome, stdout) ==
    IF outcome # "ok" THEN <<>> ELSE RStrip(LStrip(stdout))

\* NPM2PiHole.get_existing_cname_records, from the response of the read
RECURSIVE NPM2PiHole_parts(_, _)
NPM2PiHole_parts(parts, records) ==
    IF parts = <<>> THEN records
    ELSE LET part == Strip(Head(parts))
         IN  IF part # <<>> /\ Contains(part, ",")
             THEN NPM2PiHole_parts(Tail(parts), records \cup {part})
             ELSE NPM2PiHole_parts(Tail(parts), records)

NPM2PiHole_get_existing_cname_records(response) ==
    IF Len(response) = 0 \/ response = <<"[", "]">> THEN {}
    ELSE LET stripped == Strip(response)
             inner == IF StartsWith(stripped, "[") /\ EndsWith(stripped, "]")
                      THEN [i \in 1..(Len(stripped) - 2) |-> stripped[i + 1]]
                      ELSE stripped
         IN  IF Strip(inner) # <<>>
             THEN NPM2PiHole_parts(SplitCommaSpace(inner), {})
             ELSE {}

\* NPM2PiHole.update_cname_records, "for domain in domains", as the set it
\* leaves in new_records and the number it leaves in added_count.
NPM2PiHole_additions(ds, target, existing) ==
    {Record(d, target) : d \in ds} \ existing

\* NPM2PiHole.update_cname_records, quoted_records and formatted_records
NPM2PiHole_formatted_records(new) ==
    LET sorted == Sorted(new)
        quoted == [i \in 1..Len(sorted) |-> <<"\"">> \o sorted[i] \o <<"\"">>]
    IN  <<"[", " ">> \o Join(<<",", " ">>, quoted) \o <<" ", "]">>

\* A copy that restarts the resolver whatever the write returned.
NPM2PiHole_restart_always(result) == TRUE

\* NPM2PiHole.update_cname_records, 'if result != ""' around the restart
NPM2PiHole_restart_after(result) == result # <<>>

-----------------------------------------------------------------------------
(* The parse of the resolver's answer, on its own: the read command prints  *)
(* any short text, and get_existing_cname_records parses what               *)
(* run_ssh_command returns.                                                 *)

MaxResponse == 5

\* The characters of an alias list, with one letter for the names.
ResponseChars == {"[", "]", ",", " ", "x"}

\* Every text of at most MaxResponse characters.
Responses == UNION {[1..n -> ResponseChars] : n \in 0..MaxResponse}

InitParse ==
    /\ testing_mode = FALSE
    /\ target_host \in ConfiguredTargets
    /\ cnameList = <<>>
    /\ pc = "idle"
    /\ domains = {}
    /\ existing_records = {}
    /\ new_records = {}
    /\ added_count = 0
    /\ formatted_records = <<>>
    /\ cmds = <<>>
    /\ cycle = 0
    /\ before = {}
    /\ prev = NoCycle
    /\ ProxyIdle
    /\ CtlIdle
    /\ JsonIdle
    /\ RaceIdle
    /\ TwinIdle
    /\ printed \in Responses
    /\ parsed = NotParsed

\* get_existing_cname_records of PiHoleManager and of NPM2PiHole: the read
\* command and the parse of its result.
ParseRecords(outcome) ==
    /\ ~parsed.done
    /\ LET response == run_ssh_command(outcome, printed)
           main_response == NPM2PiHole_run_ssh_command(outcome, printed)
       IN  parsed' = [done |-> TRUE, response |-> response,
                      value |-> get_existing_cname_records(response),
                      main |-> NPM2PiHole_get_existing_cname_records(main_response)]
    /\ UNCHANGED <<printed, dnsVars, proxyVars, ctlVars, jsonVars, raceVars, twinVars>>

NextParse == \E o \in Outcomes : ParseRecords(o)

SpecParse == InitParse /\ [][NextParse]_vars

\* The tokens of text separated by comma-space, each without its surrounding
\* whitespace: the pieces between two separators, or between a separator and
\* an end of the text, that hold no separator.
SeparatorAt(text, i) == i >= 1 /\ i < Len(text) /\ text[i] = "," /\ text[i + 1] = " "

Tokens(text) ==
    {Strip(SubSeq(text, a, b)) :
        <<a, b>> \in {ab \in (1..(Len(text) + 1)) \X (0..Len(text)) :
                        /\ ab[1] <= ab[2] + 1
                        /\ ab[1] = 1 \/ SeparatorAt(text, ab[1] - 2)
                        /\ ab[2] = Len(text) \/ SeparatorAt(text, ab[2] + 1)
                        /\ \A i \in ab[1]..(ab[2] - 1) : ~SeparatorAt(text, i)}}

\* The non-empty tokens that hold a comma.
RecordTokens(text) == {t \in Tokens(text) : t # <<>> /\ Contains(t, ",")}

\* Without a leading bracket when there is one, and without a trailing
\* bracket when there is one.
WithoutEachBracket(text) ==
    LET a == IF StartsWith(text, "[") THEN Tail(text) ELSE text
    IN  IF EndsWith(a, "]") THEN SubSeq(a, 1, Len(a) - 1) ELSE a

\* Without the two brackets when the text has both.
WithoutBothBrackets(text) ==
    IF StartsWith(text, "[") /\ EndsWith(text, "]")
    THEN SubSeq(text, 2, Len(text) - 1) ELSE text

\* C22: get_existing_cname_records returns the empty set for an empty
\* response and for "[]"; otherwise a leading bracket is removed when
\* present and a trailing bracket is removed when present, each independently
\* of the other, the rest is split on comma-space, and the result is exactly
\* the set of the non-empty tokens that hold a comma.
C22_ParseEachBracket ==
    parsed.done =>
        LET expected == IF parsed.response \in {<<>>, <<"[", "]">>} THEN {}
                        ELSE RecordTokens(WithoutEachBracket(Strip(parsed.response)))
        IN  parsed.value = expected /\ parsed.main = expected

\* C22, amended: the brackets are removed only when the response has both;
\* a response with one of them keeps it inside its first or last token.
C22_ParseBothBrackets ==
    parsed.done =>
        LET expected == IF parsed.response \in {<<>>, <<"[", "]">>} THEN {}
                        ELSE RecordTokens(WithoutBothBrackets(Strip(parsed.response)))
        IN  parsed.value = expected /\ parsed.main = expected

\* A response that opens with a bracket and does not close with one, parsed
\* into a record that still holds the bracket.
C22_Witness ==
    /\ parsed.done
    /\ StartsWith(parsed.response, "[")
    /\ ~EndsWith(parsed.response, "]")
    /\ \E r \in parsed.value : StartsWith(r, "[") /\ r \in parsed.main

-----------------------------------------------------------------------------
(* The bearer token of the proxy reconciler *)

\* This step is one call of _make_api_request.
RequestStep == Len(calls') = Len(calls) + 1 /\ calls'[Len(calls')].api

\* The authentications of the call this step makes, and the latest of them
\* before event i.
StepAuths == {i \in DOMAIN lastCall'.trace : lastCall'.trace[i].ev = "auth"}
LatestAuth(i) == CHOOSE j \in StepAuths : j < i /\ \A k \in StepAuths : k < i => k <= j

\* What one step does with the token.
TokenDiscipline ==
    LET t == lastCall'.trace
    IN  IF RequestStep
        THEN \* every request sent carries a token of a successful
             \* authentication: the cached one, or the one just acquired
             /\ \A i \in DOMAIN t :
                   t[i].ev = "send" =>
                       IF \E j \in StepAuths : j < i
                       THEN t[LatestAuth(i)].ok
                       ELSE token = "tok"
             \* a token is acquired only when none is cached: at the start
             \* with no token, or after a 401 has discarded it
             /\ \A i \in StepAuths :
                   IF i = 1 THEN token = "none"
                   ELSE t[i - 1].ev = "send" /\ t[i - 1].status = "401"
             \* a cached token is reused without authenticating
             /\ token = "tok" => t[1].ev = "send"
             \* a failed authentication ends the call: neither the request
             \* nor its retry is sent, and no token is cached afterwards
             /\ \A i \in StepAuths : ~t[i].ok => (i = Len(t) /\ token' = "none")
             \* with no token cached, the call authenticates first
             /\ token = "none" => t[1].ev = "auth"
             /\ token' = "tok" <=>
                   IF StepAuths = {} THEN token = "tok"
                   ELSE \A i \in StepAuths : t[i].ok
        ELSE token' = token

\* C23: no proxy API request is sent without a bearer token obtained from a
\* successful authentication: a token is acquired only when none is cached,
\* a cached token is reused by later requests without authenticating again,
\* a request whose first authentication fails is not sent, a retry after a
\* failed re-authentication is not sent, and after a failed
\* re-authentication no token is cached, so that the next request
\* authenticates again.
C23_TokenDiscipline == [][TokenDiscipline]_vars

\* A later request of a run reused the cached token, was answered 401, and
\* the re-authentication failed: no retry was sent and no token is cached,
\* while requests of the run are still to come.
C23_Witness ==
    /\ Len(calls) >= 2
    /\ lastCall.trace = <<SendEvent("401"), AuthEvent(FALSE)>>
    /\ token = "none"
    /\ spc \in {"delete", "create"}

-----------------------------------------------------------------------------
(* The create requests of a run *)

\* This step sends a create request for the domain.
CreateRequest(domain) ==
    /\ Len(calls') = Len(calls) + 1
    /\ LET c == calls'[Len(calls')]
       IN  c.op = "create" /\ c.api /\ c.domain = domain

\* The create requests already sent in this run for the domain.
CreatesFor(domain) == {i \in Called("create") : calls[i].api /\ calls[i].domain = domain}

\* No create request goes out for a domain that a remote host routes or
\* that the run has already sent a create for.
NoNeedlessCreate ==
    \A domain \in ProxyDomainPool :
        CreateRequest(domain) => (domain \notin Routed(hosts) /\ CreatesFor(domain) = {})

\* The hostnames of the loaded services are distinct.
DistinctHostnames ==
    \A i, j \in DOMAIN services : services[i].hostname = services[j].hostname => i = j

\* The fetch of the run returned the remote hosts.
FetchSucceeded == calls # <<>> /\ calls[1].op = "fetch" /\ calls[1].ok

\* C24: sync_proxy_hosts_from_services never issues a create request for a
\* domain that a remote proxy host already routes at the time of the run, and
\* issues at most one create per domain in a run, whether or not the fetch of
\* the existing hosts succeeded and whether or not the service list names
\* the same hostname more than once.
C24_NoNeedlessCreate == [][NoNeedlessCreate]_vars

\* The same for the runs whose fetch succeeded and whose services name each
\* hostname once.
C24_NoNeedlessCreateFetchedDistinct ==
    [][(FetchSucceeded /\ DistinctHostnames) => NoNeedlessCreate]_vars

-----------------------------------------------------------------------------
(* src/main.py: NPM2PiHole's own copy of the DNS reconciler.  It runs next  *)
(* to PiHoleManager's on a resolver of its own that starts with the same    *)
(* list; both are called with the same domains and their k-th remote        *)
(* commands meet the same outcome, script[k].                               *)

\* What the three remote commands of one call may meet.
Scripts ==
    {sc \in [1..3 -> [outcome : Outcomes, silent : BOOLEAN, applied : BOOLEAN]] :
        /\ \A k \in {1, 3} : ~sc[k].silent /\ ~sc[k].applied
        /\ sc[2].applied => sc[2].outcome \in {"ok", "timeout"}
        /\ sc[2].outcome = "ok" => sc[2].applied
        /\ sc[2].silent => sc[2].outcome = "ok"}

\* Both copies are called with the same domains.
TwinStart(D, sc) ==
    /\ twin.pc = "idle"
    /\ StartCycle(D)
    /\ twin' = [NoTwin EXCEPT !.cnameList = cnameList,
                              !.pc = IF D = {} THEN "done" ELSE "read"]
    /\ script' = sc
    /\ UNCHANGED <<ctlVars, jsonVars, raceVars, parseVars>>

\* PiHoleManager's copy runs its next remote command.
ManagerRead ==
    ReadStep(script[Len(cmds) + 1].outcome) /\ UNCHANGED restVars

ManagerWrite ==
    LET o == script[Len(cmds) + 1]
    IN  WriteStep(o.outcome, o.silent, o.applied) /\ UNCHANGED restVars

ManagerRestart ==
    RestartStep(script[Len(cmds) + 1].outcome) /\ UNCHANGED restVars

\* NPM2PiHole.update_cname_records from the read to the payload.
NPM2PiHole_read ==
    /\ twin.pc = "read"
    /\ LET o == script[Len(twin.cmds) + 1]
           response == NPM2PiHole_run_ssh_command(o.outcome, ResolverShow(twin.cnameList))
           existing == NPM2PiHole_get_existing_cname_records(response)
           additions == NPM2PiHole_additions(domains, target_host, existing)
           count == Cardinality(additions)
       IN  twin' = [twin EXCEPT
                      !.existing_records = existing,
                      !.new_records = existing \cup additions,
                      !.added_count = count,
                      !.formatted_records =
                          IF count > 0
                          THEN NPM2PiHole_formatted_records(existing \cup additions)
                          ELSE <<>>,
                      !.cmds = Append(@, [cmd |-> "read", arg |-> <<>>,
                                          outcome |-> o.outcome, result |-> response]),
                      !.pc = IF count > 0 /\ ~testing_mode THEN "write" ELSE "done"]
    /\ UNCHANGED <<script, dnsVars, proxyVars, ctlVars, jsonVars, raceVars, parseVars>>

\* NPM2PiHole.update_cname_records, the write of the alias list.
NPM2PiHole_write ==
    /\ twin.pc = "write"
    /\ LET o == script[Len(twin.cmds) + 1]
           stored == IF o.applied THEN ResolverParse(twin.formatted_records)
                     ELSE twin.cnameList
           stdout == IF o.silent THEN <<"\n">> ELSE ResolverShow(stored)
           result == NPM2PiHole_run_ssh_command(o.outcome, stdout)
       IN  twin' = [twin EXCEPT
                      !.cnameList = stored,
                      !.cmds = Append(@, [cmd |-> "write", arg |-> twin.formatted_records,
                                          outcome |-> o.outcome, result |-> result]),
                      !.pc = IF NPM2PiHole_restart_after(result) THEN "restart"
                             ELSE "done"]
    /\ UNCHANGED <<script, dnsVars, proxyVars, ctlVars, jsonVars, raceVars, parseVars>>

\* NPM2PiHole.update_cname_records, the restart in line.
NPM2PiHole_restart ==
    /\ twin.pc = "restart"
    /\ LET o == script[Len(twin.cmds) + 1]
       IN  twin' = [twin EXCEPT
                      !.cmds = Append(@, [cmd |-> "restart", arg |-> <<>>,
                                          outcome |-> o.outcome,
                                          result |-> NPM2PiHole_run_ssh_command(
                                                         o.outcome, <<"\n">>)]),
                      !.pc = "done"]
    /\ UNCHANGED <<script, dnsVars, proxyVars, ctlVars, jsonVars, raceVars, parseVars>>

NextTwin ==
    \/ \E D \in SUBSET Domains, sc \in Scripts : TwinStart(D, sc)
    \/ ManagerRead
    \/ ManagerWrite
    \/ ManagerRestart
    \/ NPM2PiHole_read
    \/ NPM2PiHole_write
    \/ NPM2PiHole_restart

SpecTwin == InitDns /\ [][NextTwin]_vars

\* Both calls have returned.
BothReturned == pc = "done" /\ twin.pc = "done"

\* C25: the two copies of the DNS reconciler are equivalent: for every set
\* of desired domains, target host, dry-run flag and sequence of outcomes of
\* the remote commands, NPM2PiHole.update_cname_records and
\* PiHoleManager.update_cname_records issue the same sequence of remote
\* commands with the same arguments and leave the resolver in the same state.
C25_CopiesAgree ==
    /\ \A i \in 1..Min(Len(cmds), Len(twin.cmds)) :
          cmds[i].cmd = twin.cmds[i].cmd /\ cmds[i].arg = twin.cmds[i].arg
    /\ BothReturned => /\ Len(cmds) = Len(twin.cmds)
                       /\ cnameList = twin.cnameList

\* Both copies have read, written a list with an addition and restarted the
\* resolver, and the resolver's list is no longer the one they found.
C25_Witness ==
    /\ BothReturned
    /\ Len(cmds) = 3 /\ Len(twin.cmds) = 3
    /\ cmds[2].arg # <<>>
    /\ Range(cnameList) # before

====
